---- MODULE Spec2Model ----
(***************************************************************************)
(* WLPA species search dashboards: src/WLPA-App.py (Schedules I-III search *)
(* and Schedule IV specimen search over two spreadsheets) and src/app.py   *)
(* (unified WLPA + CITES search over a spreadsheet and the Species+ API).  *)
(*                                                                         *)
(* A text value is a sequence of one-character strings.  A pandas missing  *)
(* value and a JSON null / missing key are the markers NaN and None.       *)
(***************************************************************************)
EXTENDS Integers, Sequences, FiniteSets, TLC

VARIABLES
    program,        \* the script the process runs: "WLPA-App.py" or "app.py"
    wlpaFile,       \* WLPA.xlsx on disk
    sched4File,     \* WLPA-SchIV.xlsx on disk
    tokenSet,       \* whether st.secrets holds CITES_API_TOKEN
    cache,          \* st.cache_data store, one entry per decorated loader
    reads,          \* per loader: how many times its body started
    loads,          \* per loader: how many times its body returned a value
    pc,             \* "closed" (no session yet), "idle", "paging", "blocked"
    crash,          \* where the latest script run raised, "" when it did not
    common_query,   \* WLPA-App.py text input, common name
    sci_query,      \* WLPA-App.py text input, scientific name
    sched4_query,   \* WLPA-App.py text input, Schedule IV
    common_input,   \* app.py text input, common name
    sci_input,      \* app.py text input, scientific name
    view13,         \* what the Schedules I-III section shows
    view4,          \* what the Schedule IV section shows
    viewAll,        \* what app.py shows
    appendix,       \* load_schedule_4_from_cites: index of the appendix paged
    page,           \* load_schedule_4_from_cites: page requested next
    all_rows,       \* load_schedule_4_from_cites: rows accumulated
    log             \* HTTP exchanges of the latest script run, in order

vars == <<program, wlpaFile, sched4File, tokenSet, cache, reads, loads, pc,
          crash, common_query, sci_query, sched4_query, common_input,
          sci_input, view13, view4, viewAll, appendix, page, all_rows, log>>

----------------------------------------------------------------------------
(* Bounds *)

\* pages of data the remote API holds per appendix
MaxPage == 1

\* times a loader body may start (a failed load is retried on a new session)
MaxReads == 2

----------------------------------------------------------------------------
(* Text *)

NaN == <<"<NaN>">>

None == <<"<None>">>

EmptyText == <<>>

\* str.lower / re.IGNORECASE folding on the letters in use
lower(c) ==
    CASE c = "A" -> "a"
      [] c = "N" -> "n"
      [] c = "E" -> "e"
      [] OTHER -> c

IsSpace(c) == c = " "

RECURSIVE lstrip(_)
lstrip(s) ==
    IF s = <<>> THEN s
    ELSE IF IsSpace(Head(s)) THEN lstrip(Tail(s)) ELSE s

RECURSIVE rstrip(_)
rstrip(s) ==
    IF s = <<>> THEN s
    ELSE IF IsSpace(s[Len(s)]) THEN rstrip(SubSeq(s, 1, Len(s) - 1)) ELSE s

\* str.strip()
strip(s) == rstrip(lstrip(s))

\* astype(str) / str(): a missing value becomes the text "nan"
astype_str(v) == IF v = NaN THEN <<"n", "a", "n">> ELSE v

\* df[col].astype(str).str.strip()
astype_str_strip(v) == strip(astype_str(v))

\* Python truthiness of an optional text
Truthy(v) == v # None /\ v # <<>>

\* Python `a or b`
Or(a, b) == IF Truthy(a) THEN a ELSE b

----------------------------------------------------------------------------
(* Series.str.contains(pat, case=False, na=False): pat is a regular        *)
(* expression (regex=True is the default), compiled with re.IGNORECASE and *)
(* searched in every value.  Over the characters in use: a letter or a     *)
(* space matches itself, "." matches any character, and "(" opens a group  *)
(* that nothing closes, which re.compile rejects.                          *)

re_compile_ok(pat) == \A i \in 1..Len(pat) : pat[i] # "("

re_atom_matches(p, c) == p = "." \/ lower(p) = lower(c)

re_search(pat, text) ==
    \E i \in 0..(Len(text) - Len(pat)) :
        \A j \in 1..Len(pat) : re_atom_matches(pat[j], text[i + j])

str_contains(column, pat) ==
    IF re_compile_ok(pat)
    THEN [ok |-> TRUE, mask |-> [i \in 1..Len(column) |-> re_search(pat, column[i])]]
    ELSE [ok |-> FALSE, mask |-> <<>>]

----------------------------------------------------------------------------
(* Workbooks.  A sheet has the header spellings of its columns and its     *)
(* data rows; a row of a Schedule sheet is given by the cells under the    *)
(* schedule, common-name and scientific-name headers.                      *)

SheetNames13 == {"Schedule-I", "Schedule-II", "Schedule-III"}

SheetNames4 == {"I", "II", "III"}

StdHeaders == {"Schedule", "Common Name", "Scientific Name"}

Sheet3Headers == {"schedule", "Common Name", "Scintific Name"}

\* rename map applied to Schedule-I and Schedule-II
RenameStd ==
    ("Schedule" :> "Schedule") @@ ("Common Name" :> "CommonName")
        @@ ("Scientific Name" :> "ScientificName")

\* rename map applied to Schedule-III
RenameSheet3 ==
    ("schedule" :> "Schedule") @@ ("Common Name" :> "CommonName")
        @@ ("Scintific Name" :> "ScientificName")

MissingSheet == [present |-> FALSE, columns |-> {}, rows |-> <<>>]

\* pd.read_excel(file, sheet_name=...): raises when the file or sheet is absent
read_excel(file, sheet_name) ==
    IF file.exists /\ file.sheets[sheet_name].present
    THEN [ok |-> TRUE, columns |-> file.sheets[sheet_name].columns,
          rows |-> file.sheets[sheet_name].rows]
    ELSE [ok |-> FALSE, columns |-> {}, rows |-> <<>>]

\* DataFrame.rename(columns=mapping): unknown headers are left as they are
rename(columns, mapping) ==
    {IF c \in DOMAIN mapping THEN mapping[c] ELSE c : c \in columns}

\* s = s[[...]] : KeyError when a selected column is missing
has_columns(columns, wanted) == wanted \subseteq columns

\* read + rename + select of one Schedule sheet (WLPA-App.py: three columns)
read_schedule_sheet(file, sheet_name, mapping) ==
    LET s == read_excel(file, sheet_name)
    IN  IF s.ok /\ has_columns(rename(s.columns, mapping),
                               {"Schedule", "CommonName", "ScientificName"})
        THEN [ok |-> TRUE,
              rows |-> [i \in 1..Len(s.rows) |->
                          [Schedule |-> s.rows[i].Schedule,
                           CommonName |-> s.rows[i].CommonName,
                           ScientificName |-> s.rows[i].ScientificName]]]
        ELSE [ok |-> FALSE, rows |-> <<>>]

\* for col in ["CommonName", "ScientificName"]: df[col] = astype(str).str.strip()
strip_names(df) ==
    [i \in 1..Len(df) |->
        [df[i] EXCEPT !.CommonName = astype_str_strip(@),
                      !.ScientificName = astype_str_strip(@)]]

\* WLPA-App.py load_wlpa_1_3
load_wlpa_1_3(file) ==
    LET s1 == read_schedule_sheet(file, "Schedule-I", RenameStd)
        s2 == read_schedule_sheet(file, "Schedule-II", RenameStd)
        s3 == read_schedule_sheet(file, "Schedule-III", RenameSheet3)
    IN  IF s1.ok /\ s2.ok /\ s3.ok
        THEN [ok |-> TRUE, df |-> strip_names(s1.rows \o s2.rows \o s3.rows)]
        ELSE [ok |-> FALSE, df |-> <<>>]

\* read + rename + Appendix = "" + select of one Schedule sheet (app.py)
read_schedule_sheet_app(file, sheet_name, mapping) ==
    LET s == read_excel(file, sheet_name)
    IN  IF s.ok /\ has_columns(rename(s.columns, mapping),
                               {"Schedule", "CommonName", "ScientificName"})
        THEN [ok |-> TRUE,
              rows |-> [i \in 1..Len(s.rows) |->
                          [Schedule |-> s.rows[i].Schedule,
                           Appendix |-> EmptyText,
                           CommonName |-> s.rows[i].CommonName,
                           ScientificName |-> s.rows[i].ScientificName]]]
        ELSE [ok |-> FALSE, rows |-> <<>>]

\* app.py load_wlpa_schedules_1_3
load_wlpa_schedules_1_3(file) ==
    LET s1 == read_schedule_sheet_app(file, "Schedule-I", RenameStd)
        s2 == read_schedule_sheet_app(file, "Schedule-II", RenameStd)
        s3 == read_schedule_sheet_app(file, "Schedule-III", RenameSheet3)
    IN  IF s1.ok /\ s2.ok /\ s3.ok
        THEN [ok |-> TRUE, df |-> strip_names(s1.rows \o s2.rows \o s3.rows)]
        ELSE [ok |-> FALSE, df |-> <<>>]

ScheduleIV == <<"S", "c", "h", "e", "d", "u", "l", "e", "-", "I", "V">>

AppendixLabels == << <<"I">>, <<"I", "I">>, <<"I", "I", "I">> >>

\* the rows loop of read_appendix_sheet: a NaN cell and a cell that strips to
\* nothing are skipped, any other cell becomes a record
RECURSIVE appendix_records(_, _)
appendix_records(cells, appendix_label) ==
    IF cells = <<>> THEN <<>>
    ELSE LET text_val == Head(cells)
             text_str == strip(astype_str(text_val))
             rest == appendix_records(Tail(cells), appendix_label)
         IN  IF text_val = NaN THEN rest
             ELSE IF text_str = <<>> THEN rest
             ELSE <<[Schedule |-> ScheduleIV, Appendix |-> appendix_label,
                     ScientificNameOrText |-> text_str]>> \o rest

\* load_schedule_iv.read_appendix_sheet: a sheet that cannot be read adds nothing
read_appendix_sheet(file, sheet_name, appendix_label) ==
    LET s == read_excel(file, sheet_name)
    IN  IF ~s.ok THEN <<>>
        ELSE IF s.rows = <<>> THEN <<>>
        ELSE appendix_records(s.rows, appendix_label)

\* the final astype(str).str.strip() over the three columns
strip_sched4(df) ==
    [i \in 1..Len(df) |->
        [Schedule |-> astype_str_strip(df[i].Schedule),
         Appendix |-> astype_str_strip(df[i].Appendix),
         ScientificNameOrText |-> astype_str_strip(df[i].ScientificNameOrText)]]

\* WLPA-App.py load_schedule_iv
load_schedule_iv(file) ==
    LET records == read_appendix_sheet(file, "I", AppendixLabels[1])
                   \o read_appendix_sheet(file, "II", AppendixLabels[2])
                   \o read_appendix_sheet(file, "III", AppendixLabels[3])
    IN  [ok |-> TRUE, df |-> IF records = <<>> THEN <<>> ELSE strip_sched4(records)]

----------------------------------------------------------------------------
(* Search blocks.  A view is what a section of the page shows after a run: *)
(* kind "unrendered" (the run never got there), "none" (nothing shown),    *)
(* "info", "warning", "success" or "exception"; idx holds the pandas index *)
(* labels of the result rows and table the displayed rows.                 *)

Unrendered == [kind |-> "unrendered", idx |-> <<>>, table |-> <<>>]

Column(df, name) == [i \in 1..Len(df) |-> df[i][name]]

\* pd.Series([True] * len(df))
all_true(df) == [i \in 1..Len(df) |-> TRUE]

\* variant of mask_and: the masks are joined with | instead of &
mask_or(mask, other) == [i \in 1..Len(mask) |-> mask[i] \/ other[i]]

\* mask &= other
mask_and(mask, other) == [i \in 1..Len(mask) |-> mask[i] /\ other[i]]

\* df[mask]: the index labels kept by boolean indexing, in frame order
boolean_index(mask) ==
    SelectSeq([i \in 1..Len(mask) |-> i], LAMBDA i : mask[i])

\* results.empty / st.warning / st.success + st.dataframe(...reset_index(drop=True))
show_results(df, idx) ==
    IF idx = <<>>
    THEN [kind |-> "warning", idx |-> <<>>, table |-> <<>>]
    ELSE [kind |-> "success", idx |-> idx,
          table |-> [k \in 1..Len(idx) |-> df[idx[k]]]]

ExceptionView == [kind |-> "exception", idx |-> <<>>, table |-> <<>>]

\* variant of has_query_1_3: the search runs whatever the inputs hold
has_query_always(common_q, sci_q) == TRUE

\* `if common_q or sci_q:` (WLPA-App.py)
has_query_1_3(common_q, sci_q) == Truthy(common_q) \/ Truthy(sci_q)

\* the two-field filter shared by both scripts: the scientific-name mask is
\* built first, then the common-name mask, each only for a non-empty query
two_field_search(df, common_q, sci_q) ==
    LET mask0 == all_true(df)
        m_sci == str_contains(Column(df, "ScientificName"), sci_q)
        m_common == str_contains(Column(df, "CommonName"), common_q)
        mask1 == IF Truthy(sci_q) THEN mask_and(mask0, m_sci.mask) ELSE mask0
        mask2 == IF Truthy(common_q) THEN mask_and(mask1, m_common.mask) ELSE mask1
    IN  IF Truthy(sci_q) /\ ~m_sci.ok THEN ExceptionView
        ELSE IF Truthy(common_q) /\ ~m_common.ok THEN ExceptionView
        ELSE show_results(df, boolean_index(mask2))

\* WLPA-App.py, Schedules I-III search block
search_1_3(df, common_text, sci_text) ==
    LET common_q == strip(common_text)
        sci_q == strip(sci_text)
    IN  IF has_query_1_3(common_q, sci_q)
        THEN two_field_search(df, common_q, sci_q)
        ELSE [kind |-> "none", idx |-> <<>>, table |-> <<>>]

\* `if sched4_q:` (WLPA-App.py)
has_query_4(sched4_q) == Truthy(sched4_q)

\* WLPA-App.py, Schedule IV search block
search_4(df, sched4_text) ==
    LET sched4_q == strip(sched4_text)
        m == str_contains(Column(df, "ScientificNameOrText"), sched4_q)
    IN  IF has_query_4(sched4_q)
        THEN IF ~m.ok THEN ExceptionView
             ELSE show_results(df, boolean_index(m.mask))
        ELSE [kind |-> "none", idx |-> <<>>, table |-> <<>>]

\* `if not common_query and not sci_query:` (app.py)
no_query_unified(common_q, sci_q) == ~Truthy(common_q) /\ ~Truthy(sci_q)

\* app.py, unified search block
search_unified(df, common_text, sci_text) ==
    LET common_q == strip(common_text)
        sci_q == strip(sci_text)
    IN  IF no_query_unified(common_q, sci_q)
        THEN [kind |-> "info", idx |-> <<>>, table |-> <<>>]
        ELSE two_field_search(df, common_q, sci_q)

----------------------------------------------------------------------------
(* CITES Species+ API (app.py).  A response has a status code and, in its  *)
(* JSON body, the taxon_concepts list; a request can also fail to connect  *)
(* or never be answered (requests.get is called without a timeout).        *)

\* `lang and isinstance(lang, str) and lang.lower().startswith("en")`
is_english(lang) ==
    /\ Truthy(lang)
    /\ Len(lang) >= 2
    /\ lower(lang[1]) = "e"
    /\ lower(lang[2]) = "n"

\* `cn.get("name") or cn.get("full_name") or ""`
name_val(cn) == Or(Or(cn.name, cn.full_name), EmptyText)

\* the loop over item["common_names"]: the first English-tagged entry wins
RECURSIVE first_english(_)
first_english(cns) ==
    IF cns = <<>> THEN EmptyText
    ELSE IF is_english(Head(cns).language) THEN name_val(Head(cns))
    ELSE first_english(Tail(cns))

\* the common-name choice for one item
common_name_of(item) ==
    IF Truthy(item.english_common_name) THEN item.english_common_name
    ELSE IF item.common_names # <<>>
    THEN LET en == first_english(item.common_names)
         IN  IF Truthy(en) THEN en ELSE name_val(item.common_names[1])
    ELSE EmptyText

\* all_rows.append({...}) for every item of a page
rows_of(results, appendix_label) ==
    [i \in 1..Len(results) |->
        [Schedule |-> ScheduleIV,
         Appendix |-> appendix_label,
         CommonName |-> Or(common_name_of(results[i]), EmptyText),
         ScientificName |-> Or(results[i].full_name, EmptyText)]]

\* variant of stops_paging: the status code is not looked at
stops_paging_no_status(response) == response.results = <<>>

\* `if response.status_code != 200: break` and `if not results: break`
stops_paging(response) == response.status # 200 \/ response.results = <<>>

\* pd.DataFrame(all_rows) with the name columns stripped (empty frame when no rows)
cites_frame(rows) == IF rows = <<>> THEN <<>> ELSE strip_names(rows)

\* load_all_data: pd.concat([wlpa_1_3, sched_4]) with the name columns stripped
concat_all(wlpa_1_3, sched_4) == strip_names(wlpa_1_3 \o sched_4)

----------------------------------------------------------------------------
(* st.cache_data: a decorated loader runs its body on a miss and stores    *)
(* the value it returns; a hit returns the stored value without running    *)
(* the body; a body that raises stores nothing.                            *)

Loaders ==
    {"load_wlpa_1_3", "load_schedule_iv", "load_wlpa_schedules_1_3",
     "load_schedule_4_from_cites", "load_all_data"}

EmptyEntry == [hit |-> FALSE, value |-> <<>>]

\* variant of cache_data: the stored value is never looked up
cache_data_miss(entry, result) ==
    IF result.ok
    THEN [entry |-> [hit |-> TRUE, value |-> result.df], ran |-> TRUE,
          ok |-> TRUE, df |-> result.df]
    ELSE [entry |-> entry, ran |-> TRUE, ok |-> FALSE, df |-> <<>>]

cache_data(entry, result) ==
    IF entry.hit
    THEN [entry |-> entry, ran |-> FALSE, ok |-> TRUE, df |-> entry.value]
    ELSE IF result.ok
    THEN [entry |-> [hit |-> TRUE, value |-> result.df], ran |-> TRUE,
          ok |-> TRUE, df |-> result.df]
    ELSE [entry |-> entry, ran |-> TRUE, ok |-> FALSE, df |-> <<>>]

Bump(counter, name, yes) ==
    [counter EXCEPT ![name] = IF yes THEN @ + 1 ELSE @]

----------------------------------------------------------------------------
(* Inputs *)

RowTiger ==
    [Schedule |-> <<"I">>, CommonName |-> <<" ", "a", "A">>,
     ScientificName |-> <<"A", "n", " ">>]

RowBlank ==
    [Schedule |-> NaN, CommonName |-> NaN, ScientificName |-> <<"a">>]

Workbook13(s1, s2, s3) ==
    [exists |-> TRUE,
     sheets |-> ("Schedule-I" :> s1) @@ ("Schedule-II" :> s2)
                    @@ ("Schedule-III" :> s3)]

FileAbsent13 ==
    [exists |-> FALSE, sheets |-> [n \in SheetNames13 |-> MissingSheet]]

Sheet13(columns, rows) == [present |-> TRUE, columns |-> columns, rows |-> rows]

WlpaGood ==
    Workbook13(Sheet13(StdHeaders, <<RowTiger>>),
               Sheet13(StdHeaders, <<RowBlank>>),
               Sheet13(Sheet3Headers, <<RowTiger>>))

WlpaNoSheet2 ==
    Workbook13(Sheet13(StdHeaders, <<RowTiger>>), MissingSheet,
               Sheet13(Sheet3Headers, <<RowTiger>>))

WlpaStdHeaders3 ==
    Workbook13(Sheet13(StdHeaders, <<RowTiger>>),
               Sheet13(StdHeaders, <<RowBlank>>),
               Sheet13(StdHeaders, <<RowTiger>>))

WlpaTwoRows ==
    Workbook13(Sheet13(StdHeaders, <<RowBlank, RowTiger>>),
               Sheet13(StdHeaders, <<>>),
               Sheet13(Sheet3Headers, <<RowTiger>>))

SmallWlpaFiles ==
    {FileAbsent13, WlpaGood, WlpaTwoRows, WlpaNoSheet2, WlpaStdHeaders3}

Workbook4(s1, s2, s3) ==
    [exists |-> TRUE, sheets |-> ("I" :> s1) @@ ("II" :> s2) @@ ("III" :> s3)]

Sheet4(cells) == [present |-> TRUE, columns |-> {"Species"}, rows |-> cells]

Sched4Good ==
    Workbook4(Sheet4(<< <<" ", "a", ".", "n", " ">> >>),
              Sheet4(<< NaN, <<" ">>, <<"A", "n">> >>),
              Sheet4(<< <<"a", "A">> >>))

Sched4NoSheetII ==
    Workbook4(Sheet4(<< <<" ", "a", ".", "n", " ">> >>), MissingSheet,
              Sheet4(<< <<"a", "A">> >>))

Sched4Absent ==
    [exists |-> FALSE, sheets |-> [n \in SheetNames4 |-> MissingSheet]]

SmallSched4Files == {Sched4Good, Sched4NoSheetII, Sched4Absent}

\* what a user types into a text input
QueryInputs ==
    { <<>>, <<" ">>, <<"a">>, <<"n">>, <<" ", "A", "n">>, <<"a", ".">>,
      <<"(">> }

ItemEnglish ==
    [full_name |-> <<"A", "n", " ">>, english_common_name |-> <<"a">>,
     common_names |-> <<>>]

ItemListed ==
    [full_name |-> None, english_common_name |-> None,
     common_names |->
        << [language |-> <<"f", "r">>, name |-> <<"n">>, full_name |-> None],
           [language |-> <<"E", "N">>, name |-> None,
            full_name |-> <<" ", "a", "A">>] >>]

ResultPages == { <<ItemEnglish>>, <<ItemListed, ItemEnglish>> }

\* what the API can answer to one page request
Responses ==
    {[kind |-> "response", status |-> 200, results |-> r] :
        r \in ResultPages \cup {<<>>}}
    \cup {[kind |-> "response", status |-> 203, results |-> <<ItemEnglish>>],
          [kind |-> "response", status |-> 500, results |-> <<>>],
          [kind |-> "ConnectionError", status |-> 0, results |-> <<>>],
          [kind |-> "hang", status |-> 0, results |-> <<>>]}

\* a page of data: the answer that makes the loader ask for the next page
IsDataPage(r) == r.kind = "response" /\ r.status = 200 /\ r.results # <<>>

----------------------------------------------------------------------------
(* WLPA-App.py: one run of the script, top to bottom, with the given       *)
(* widget values.  An exception ends the run where it is raised; a widget  *)
(* the run did not reach is not on the page and loses its value.           *)

RunWlpaApp(cq, sq, q4) ==
    LET c13 == cache_data(cache["load_wlpa_1_3"], load_wlpa_1_3(wlpaFile))
        v13 == search_1_3(c13.df, cq, sq)
        c4  == cache_data(cache["load_schedule_iv"], load_schedule_iv(sched4File))
        v4  == search_4(c4.df, q4)
        stage == IF ~c13.ok THEN "load_wlpa_1_3"
                 ELSE IF v13.kind = "exception" THEN "search_1_3"
                 ELSE IF v4.kind = "exception" THEN "search_4"
                 ELSE ""
        reached4 == stage \in {"", "search_4"}
    IN  /\ cache' = [cache EXCEPT
                        !["load_wlpa_1_3"] = c13.entry,
                        !["load_schedule_iv"] = IF reached4 THEN c4.entry ELSE @]
        /\ reads' = Bump(Bump(reads, "load_wlpa_1_3", c13.ran),
                         "load_schedule_iv", reached4 /\ c4.ran)
        /\ loads' = Bump(Bump(loads, "load_wlpa_1_3", c13.ran /\ c13.ok),
                         "load_schedule_iv", reached4 /\ c4.ran /\ c4.ok)
        /\ crash' = stage
        /\ view13' = IF c13.ok THEN v13 ELSE Unrendered
        /\ view4' = IF reached4 THEN v4 ELSE Unrendered
        /\ common_query' = IF c13.ok THEN cq ELSE EmptyText
        /\ sci_query' = IF c13.ok THEN sq ELSE EmptyText
        /\ sched4_query' = IF reached4 THEN q4 ELSE EmptyText
        /\ pc' = "idle"
        /\ UNCHANGED <<program, wlpaFile, sched4File, tokenSet, common_input,
                       sci_input, viewAll, appendix, page, all_rows, log>>

\* a browser session opens (or reloads) the page: every input starts empty
OpenSession ==
    /\ program = "WLPA-App.py"
    /\ pc \in {"closed", "idle"}
    /\ cache["load_wlpa_1_3"].hit \/ reads["load_wlpa_1_3"] < MaxReads
    /\ RunWlpaApp(EmptyText, EmptyText, EmptyText)

\* the user changes the common-name input: the script reruns
EditCommon ==
    /\ program = "WLPA-App.py"
    /\ pc = "idle"
    /\ crash # "load_wlpa_1_3"
    /\ \E q \in QueryInputs : RunWlpaApp(q, sci_query, sched4_query)

\* the user changes the scientific-name input: the script reruns
EditSci ==
    /\ program = "WLPA-App.py"
    /\ pc = "idle"
    /\ crash # "load_wlpa_1_3"
    /\ \E q \in QueryInputs : RunWlpaApp(common_query, q, sched4_query)

\* the user changes the Schedule IV input: the script reruns
EditSched4 ==
    /\ program = "WLPA-App.py"
    /\ pc = "idle"
    /\ crash \notin {"load_wlpa_1_3", "search_1_3"}
    /\ \E q \in QueryInputs : RunWlpaApp(common_query, sci_query, q)

----------------------------------------------------------------------------
(* app.py: load_all_data() is served from the cache, or runs its body:     *)
(* load_wlpa_schedules_1_3(), then load_schedule_4_from_cites(), which     *)
(* pages the API one request at a time, then the concatenation.  The       *)
(* search block follows.                                                   *)

\* the widgets and the search block, with the loaded frame
RenderUnified(data, ci, si) ==
    LET v == search_unified(data, ci, si)
    IN  /\ viewAll' = v
        /\ crash' = IF v.kind = "exception" THEN "search" ELSE ""
        /\ common_input' = ci
        /\ sci_input' = si
        /\ pc' = "idle"

\* the run ends in an exception before the widgets are on the page
RaiseInLoad(where) ==
    /\ crash' = where
    /\ viewAll' = Unrendered
    /\ common_input' = EmptyText
    /\ sci_input' = EmptyText
    /\ pc' = "idle"

NoLocals ==
    /\ appendix' = 0
    /\ page' = 0
    /\ all_rows' = <<>>

\* a run whose load_all_data() is a cache hit
RunAppCached(ci, si) ==
    /\ cache["load_all_data"].hit
    /\ RenderUnified(cache["load_all_data"].value, ci, si)
    /\ log' = <<>>
    /\ UNCHANGED <<program, wlpaFile, sched4File, tokenSet, cache, reads,
                   loads, common_query, sci_query, sched4_query, view13,
                   view4, appendix, page, all_rows>>

\* load_schedule_4_from_cites returns rows; load_all_data concatenates,
\* both values are stored, and the script goes on to the search block
FinishLoadAll(rows, ci, si) ==
    LET sched_4 == cites_frame(rows)
        all_data == concat_all(cache["load_wlpa_schedules_1_3"].value, sched_4)
    IN  /\ cache' = [cache EXCEPT
                        !["load_schedule_4_from_cites"] =
                            [hit |-> TRUE, value |-> sched_4],
                        !["load_all_data"] = [hit |-> TRUE, value |-> all_data]]
        /\ loads' = Bump(Bump(loads, "load_schedule_4_from_cites", TRUE),
                         "load_all_data", TRUE)
        /\ RenderUnified(all_data, ci, si)
        /\ NoLocals

\* a browser session opens (or reloads) the page: every input starts empty
OpenSessionApp ==
    /\ program = "app.py"
    /\ pc \in {"closed", "idle"}
    /\ \/ RunAppCached(EmptyText, EmptyText)
       \/ /\ ~cache["load_all_data"].hit
          /\ reads["load_all_data"] < MaxReads
          /\ LET c13 == cache_data(cache["load_wlpa_schedules_1_3"],
                                   load_wlpa_schedules_1_3(wlpaFile))
                 hit4 == cache["load_schedule_4_from_cites"].hit
                 started4 == c13.ok /\ ~hit4
             IN  /\ reads' = Bump(Bump(Bump(reads, "load_all_data", TRUE),
                                       "load_wlpa_schedules_1_3", c13.ran),
                                  "load_schedule_4_from_cites", started4)
                 /\ log' = <<>>
                 /\ IF ~c13.ok
                    THEN /\ RaiseInLoad("load_wlpa_schedules_1_3")
                         /\ NoLocals
                         /\ UNCHANGED <<cache, loads>>
                    ELSE IF ~tokenSet
                    THEN /\ RaiseInLoad("st.secrets")
                         /\ NoLocals
                         /\ cache' = [cache EXCEPT
                                        !["load_wlpa_schedules_1_3"] = c13.entry]
                         /\ loads' = Bump(loads, "load_wlpa_schedules_1_3", c13.ran)
                    ELSE /\ pc' = "paging"
                         /\ appendix' = 1
                         /\ page' = 1
                         /\ all_rows' = <<>>
                         /\ cache' = [cache EXCEPT
                                        !["load_wlpa_schedules_1_3"] = c13.entry]
                         /\ loads' = Bump(loads, "load_wlpa_schedules_1_3", c13.ran)
                         /\ crash' = ""
                         /\ viewAll' = Unrendered
                         /\ common_input' = EmptyText
                         /\ sci_input' = EmptyText
          /\ UNCHANGED <<program, wlpaFile, sched4File, tokenSet, common_query,
                         sci_query, sched4_query, view13, view4>>

\* one pass of `while True`: requests.get for (appendix, page) and what follows
CitesRequest ==
    /\ program = "app.py"
    /\ pc = "paging"
    /\ \E response \in Responses :
        /\ IsDataPage(response) => page <= MaxPage
        /\ log' = Append(log, [appendix |-> appendix, page |-> page,
                               kind |-> response.kind,
                               status |-> response.status,
                               results |-> response.results])
        /\ CASE response.kind = "ConnectionError" ->
                    /\ RaiseInLoad("requests.get")
                    /\ NoLocals
                    /\ UNCHANGED <<cache, loads>>
             [] response.kind = "hang" ->
                    /\ pc' = "blocked"
                    /\ UNCHANGED <<cache, loads, crash, viewAll, common_input,
                                   sci_input, appendix, page, all_rows>>
             [] OTHER ->
                    IF stops_paging(response)
                    THEN IF appendix < Len(AppendixLabels)
                         THEN /\ appendix' = appendix + 1
                              /\ page' = 1
                              /\ UNCHANGED <<cache, loads, crash, viewAll,
                                             common_input, sci_input, pc,
                                             all_rows>>
                         ELSE FinishLoadAll(all_rows, common_input, sci_input)
                    ELSE /\ all_rows' = all_rows \o
                                rows_of(response.results, AppendixLabels[appendix])
                         /\ page' = page + 1
                         /\ UNCHANGED <<cache, loads, crash, viewAll,
                                        common_input, sci_input, pc, appendix>>
    /\ UNCHANGED <<program, wlpaFile, sched4File, tokenSet, reads,
                   common_query, sci_query, sched4_query, view13, view4>>

\* the user changes the common-name input: the script reruns
EditCommonInput ==
    /\ program = "app.py"
    /\ pc = "idle"
    /\ crash \in {"", "search"}
    /\ \E q \in QueryInputs : RunAppCached(q, sci_input)

\* the user changes the scientific-name input: the script reruns
EditSciInput ==
    /\ program = "app.py"
    /\ pc = "idle"
    /\ crash \in {"", "search"}
    /\ \E q \in QueryInputs : RunAppCached(common_input, q)

----------------------------------------------------------------------------
(* Specifications *)

InitProcess ==
    /\ cache = [f \in Loaders |-> EmptyEntry]
    /\ reads = [f \in Loaders |-> 0]
    /\ loads = [f \in Loaders |-> 0]
    /\ pc = "closed"
    /\ crash = ""
    /\ common_query = EmptyText
    /\ sci_query = EmptyText
    /\ sched4_query = EmptyText
    /\ common_input = EmptyText
    /\ sci_input = EmptyText
    /\ view13 = Unrendered
    /\ view4 = Unrendered
    /\ viewAll = Unrendered
    /\ appendix = 0
    /\ page = 0
    /\ all_rows = <<>>
    /\ log = <<>>

\* either script, started on one of a few workbooks
Init ==
    /\ InitProcess
    /\ \/ /\ program = "WLPA-App.py"
          /\ wlpaFile \in SmallWlpaFiles
          /\ sched4File \in SmallSched4Files
          /\ tokenSet = TRUE
       \/ /\ program = "app.py"
          /\ wlpaFile \in {FileAbsent13, WlpaGood, WlpaNoSheet2}
          /\ sched4File = Sched4Good
          /\ tokenSet \in BOOLEAN

Next ==
    \/ OpenSession
    \/ EditCommon
    \/ EditSci
    \/ EditSched4
    \/ OpenSessionApp
    \/ CitesRequest
    \/ EditCommonInput
    \/ EditSciInput

Spec == Init /\ [][Next]_vars

----------------------------------------------------------------------------
(* Properties *)

Range(f) == {f[i] : i \in DOMAIN f}

StrictlyIncreasing(idx) ==
    \A j, k \in 1..Len(idx) : j < k => idx[j] < idx[k]

Searched(view) == view.kind \in {"warning", "success", "exception"}

Listed(view) == view.kind \in {"warning", "success"}

\* the frames the search blocks read
Frame13 == cache["load_wlpa_1_3"].value

Frame4 == cache["load_schedule_iv"].value

FrameAll == cache["load_all_data"].value

\* the rows of df whose field matches a compiled query
MatchingRows(df, field, q) ==
    {i \in 1..Len(df) : str_contains(Column(df, field), q).mask[i]}

Compiles(q) == str_contains(<<>>, q).ok

\* a two-field result against each field's own matches and against the two
\* single-field searches over the same frame
IsAndOfSingles(view, df, common_q, sci_q, single_common, single_sci) ==
    LET everything == 1..Len(df)
        by_common == IF Truthy(common_q)
                     THEN MatchingRows(df, "CommonName", common_q)
                     ELSE everything
        by_sci == IF Truthy(sci_q)
                  THEN MatchingRows(df, "ScientificName", sci_q)
                  ELSE everything
    IN  /\ view.kind = "exception" <=>
               \/ Truthy(common_q) /\ single_common.kind = "exception"
               \/ Truthy(sci_q) /\ single_sci.kind = "exception"
        /\ view.kind = "exception" <=>
               \/ Truthy(common_q) /\ ~Compiles(common_q)
               \/ Truthy(sci_q) /\ ~Compiles(sci_q)
        /\ Listed(view) =>
               /\ Range(view.idx) = by_common \cap by_sci
               /\ Truthy(common_q) => Range(single_common.idx) = by_common
               /\ Truthy(sci_q) => Range(single_sci.idx) = by_sci
               /\ StrictlyIncreasing(view.idx)
               /\ Len(view.table) = Len(view.idx)
               /\ \A k \in 1..Len(view.idx) : view.table[k] = df[view.idx[k]]

\* C1: whenever a two-field search has run with at least one non-empty query,
\* its rows are exactly the rows of the frame that match every non-empty
\* query in its field, which are the rows both single-query searches return
\* (all rows for an empty query), listed once each in frame order; it raises
\* exactly when one of the single-query searches raises.  Both the Schedules
\* I-III search and the unified search.
C1_AndStable ==
    /\ Searched(view13) =>
          IsAndOfSingles(view13, Frame13, strip(common_query), strip(sci_query),
                         search_1_3(Frame13, common_query, EmptyText),
                         search_1_3(Frame13, EmptyText, sci_query))
    /\ Searched(viewAll) =>
          IsAndOfSingles(viewAll, FrameAll, strip(common_input), strip(sci_input),
                         search_unified(FrameAll, common_input, EmptyText),
                         search_unified(FrameAll, EmptyText, sci_input))

\* C1 witness: both queries non-empty, two of three rows kept, and the
\* common-name query alone keeps more rows
C1_Witness ==
    /\ Truthy(strip(common_query))
    /\ Truthy(strip(sci_query))
    /\ view13.kind = "success"
    /\ Len(Frame13) = 3
    /\ view13.idx = <<1, 3>>
    /\ search_1_3(Frame13, common_query, EmptyText).idx = <<1, 2, 3>>

\* text contains query as a literal contiguous substring, both case-folded
LiteralContains(text, q) ==
    \E i \in 0..(Len(text) - Len(q)) :
        \A j \in 1..Len(q) : lower(text[i + j]) = lower(q[j])

LiteralRows(df, field, q) ==
    {i \in 1..Len(df) : Truthy(q) => LiteralContains(df[i][field], q)}

\* C2: every listed result holds exactly the rows whose field contains the
\* query as a literal case-folded substring, in all three searches.
C2_LiteralSubstring ==
    /\ Listed(view13) =>
          Range(view13.idx) =
              LiteralRows(Frame13, "CommonName", strip(common_query))
              \cap LiteralRows(Frame13, "ScientificName", strip(sci_query))
    /\ Listed(view4) =>
          Range(view4.idx) =
              LiteralRows(Frame4, "ScientificNameOrText", strip(sched4_query))
    /\ Listed(viewAll) =>
          Range(viewAll.idx) =
              LiteralRows(FrameAll, "CommonName", strip(common_input))
              \cap LiteralRows(FrameAll, "ScientificName", strip(sci_input))

\* C3: no search raises, whatever the user typed: a run never ends in an
\* exception of a search block.
C3_SearchNeverRaises ==
    /\ crash \notin {"search_1_3", "search_4", "search"}
    /\ view13.kind # "exception"
    /\ view4.kind # "exception"
    /\ viewAll.kind # "exception"

\* C4: in each of the three searches, a section that is on the page shows a
\* result, a warning or an error exactly when some query of it is non-empty
\* after trimming; with every query empty or blank it shows no rows.
C4_NoSearchOnEmpty ==
    /\ view13.kind # "unrendered" =>
          /\ Searched(view13) <=>
                (strip(common_query) # <<>> \/ strip(sci_query) # <<>>)
          /\ ~Searched(view13) => view13.kind = "none" /\ view13.table = <<>>
    /\ view4.kind # "unrendered" =>
          /\ Searched(view4) <=> strip(sched4_query) # <<>>
          /\ ~Searched(view4) => view4.kind = "none" /\ view4.table = <<>>
    /\ viewAll.kind # "unrendered" =>
          /\ Searched(viewAll) <=>
                (strip(common_input) # <<>> \/ strip(sci_input) # <<>>)
          /\ ~Searched(viewAll) => viewAll.kind = "info" /\ viewAll.table = <<>>

\* C4 witness: a blank (whitespace-only) common-name query over a loaded,
\* non-empty frame, and nothing shown
C4_Witness ==
    /\ common_query = <<" ">>
    /\ sci_query = <<>>
    /\ Frame13 # <<>>
    /\ view13.kind = "none"

IsTrimmedText(v) == v # NaN /\ v # None /\ strip(v) = v

RECURSIVE CountFilled(_)
CountFilled(rows) ==
    IF rows = <<>> THEN 0
    ELSE (IF \E f \in DOMAIN Head(rows) : Head(rows)[f] = NaN THEN 0 ELSE 1)
         + CountFilled(Tail(rows))

\* the data rows of the Schedule sheets, in sheet order
SourceRows13 ==
    wlpaFile.sheets["Schedule-I"].rows \o wlpaFile.sheets["Schedule-II"].rows
        \o wlpaFile.sheets["Schedule-III"].rows

\* C5: every field of every loaded record is a trimmed, non-null text, and
\* a row with a blank cell yields no record.
C5_TrimmedAndBlankDropped ==
    /\ \A f \in Loaders : \A i \in 1..Len(cache[f].value) :
          \A col \in DOMAIN cache[f].value[i] :
              IsTrimmedText(cache[f].value[i][col])
    /\ \A f \in {"load_wlpa_1_3", "load_wlpa_schedules_1_3"} :
          cache[f].hit => Len(cache[f].value) = CountFilled(SourceRows13)

\* rows of a Schedules I-III frame matched through a field whose cell is blank
MatchedThroughBlank(view, common_q, sci_q) ==
    {k \in 1..Len(view.idx) :
        \/ Truthy(common_q) /\ SourceRows13[view.idx[k]].CommonName = NaN
        \/ Truthy(sci_q) /\ SourceRows13[view.idx[k]].ScientificName = NaN}

\* the Schedule sheet rows of a frame whose blank name cell is not ""
BlankNotEmptied(df) ==
    {i \in 1..Len(SourceRows13) :
        \/ SourceRows13[i].CommonName = NaN /\ df[i].CommonName # <<>>
        \/ SourceRows13[i].ScientificName = NaN /\ df[i].ScientificName # <<>>}

\* C6: a blank name cell is loaded as "" and no non-empty query matches a
\* record through it.
C6_BlankNeverMatches ==
    /\ Listed(view13) =>
          /\ BlankNotEmptied(Frame13) = {}
          /\ MatchedThroughBlank(view13, strip(common_query), strip(sci_query)) = {}
    /\ Listed(viewAll) =>
          /\ BlankNotEmptied(FrameAll) = {}
          /\ MatchedThroughBlank(
                 [viewAll EXCEPT !.idx =
                     SelectSeq(viewAll.idx, LAMBDA i : i <= Len(SourceRows13))],
                 strip(common_input), strip(sci_input)) = {}

\* the views of the page follow from the stored frames and the inputs alone
SameInputs ==
    /\ common_query' = common_query
    /\ sci_query' = sci_query
    /\ sched4_query' = sched4_query
    /\ common_input' = common_input
    /\ sci_input' = sci_input

SameViews == view13' = view13 /\ view4' = view4 /\ viewAll' = viewAll

Frozen(f) == cache[f].hit => cache'[f] = cache[f] /\ reads'[f] = reads[f]

ReadableSheet13(name) ==
    /\ wlpaFile.sheets[name].present
    /\ wlpaFile.sheets[name].columns =
          (IF name = "Schedule-III" THEN Sheet3Headers ELSE StdHeaders)

RowsOrNone13(name) ==
    IF wlpaFile.sheets[name].present THEN wlpaFile.sheets[name].rows ELSE <<>>

\* C8: with the workbook on disk and every present sheet readable, a run of
\* a spreadsheet loader returns the records of the present sheets, a missing
\* sheet counting as no rows.
C8_MissingSheetTolerated ==
    /\ ( /\ wlpaFile.exists
         /\ \A n \in SheetNames13 :
               wlpaFile.sheets[n].present => ReadableSheet13(n)
         /\ pc = "idle" )
       => /\ crash \notin {"load_wlpa_1_3", "load_wlpa_schedules_1_3"}
          /\ \A f \in {"load_wlpa_1_3", "load_wlpa_schedules_1_3"} :
                reads[f] > 0 =>
                    /\ cache[f].hit
                    /\ Len(cache[f].value) =
                          Len(RowsOrNone13("Schedule-I"))
                          + Len(RowsOrNone13("Schedule-II"))
                          + Len(RowsOrNone13("Schedule-III"))
    /\ reads["load_schedule_iv"] > 0 => cache["load_schedule_iv"].hit

\* the claim's stop test and the one the amended claim states
StopsAsClaimed(e) == e.status \notin 200..299 \/ e.results = <<>>

StopsOnNot200(e) == e.status # 200 \/ e.results = <<>>

Stops(e, only200) == IF only200 THEN StopsOnNot200(e) ELSE StopsAsClaimed(e)

\* the exchanges of a load follow the paging order: appendix I page 1 first;
\* after a page that does not stop, the next page of the same appendix;
\* after a page that stops, page 1 of the next appendix; nothing after an
\* exchange that got no response
PagingOrder(only200) ==
    /\ log # <<>> => log[1].appendix = 1 /\ log[1].page = 1
    /\ \A k \in 1..(Len(log) - 1) :
          /\ log[k].kind = "response"
          /\ IF Stops(log[k], only200)
             THEN /\ log[k + 1].appendix = log[k].appendix + 1
                  /\ log[k + 1].page = 1
             ELSE /\ log[k + 1].appendix = log[k].appendix
                  /\ log[k + 1].page = log[k].page + 1

\* the rows of the pages that did not stop, in request order
RECURSIVE KeptRows(_, _)
KeptRows(entries, only200) ==
    IF entries = <<>> THEN <<>>
    ELSE (IF Head(entries).kind = "response" /\ ~Stops(Head(entries), only200)
          THEN rows_of(Head(entries).results, AppendixLabels[Head(entries).appendix])
          ELSE <<>>)
         \o KeptRows(Tail(entries), only200)

Answered == log # <<>> /\ log[Len(log)].kind = "response"

\* what the variables of the loader must hold after the exchanges so far
PagingState(only200) ==
    /\ pc = "paging" =>
          /\ all_rows = KeptRows(log, only200)
          /\ log = <<>> => appendix = 1 /\ page = 1
          /\ Answered =>
                IF Stops(log[Len(log)], only200)
                THEN /\ appendix = log[Len(log)].appendix + 1
                     /\ page = 1
                ELSE /\ appendix = log[Len(log)].appendix
                     /\ page = log[Len(log)].page + 1
    /\ (pc = "idle" /\ Answered) =>
          /\ log[Len(log)].appendix = Len(AppendixLabels)
          /\ Stops(log[Len(log)], only200)
          /\ cache["load_schedule_4_from_cites"].hit
          /\ cache["load_schedule_4_from_cites"].value =
                strip_names(KeptRows(log, only200))

\* C9 as stated: an appendix is paged from page 1 until the first response
\* that is non-2xx or carries no results, the rows of the pages before it
\* are kept in order, and the next appendix follows.
C9_StopsOnNon2xx == PagingOrder(FALSE) /\ PagingState(FALSE)

\* C9 amended: an appendix is paged from page 1 until the first response
\* whose status is not 200 or that carries no results, and at no earlier
\* page; the rows of the pages before it are kept in order, and the next
\* appendix follows.
C9_StopsOnNot200 == PagingOrder(TRUE) /\ PagingState(TRUE)

\* C9 witness: HTTP 500 on page 2 of appendix II, appendix III then paged
\* for data, and the load returned the kept rows
C9_Witness ==
    /\ pc = "idle"
    /\ Answered
    /\ \E k \in 2..(Len(log) - 1) :
          /\ log[k].appendix = 2 /\ log[k].page = 2 /\ log[k].status = 500
          /\ log[k - 1].appendix = 2 /\ log[k - 1].page = 1
          /\ log[k + 1].appendix = 3 /\ log[k + 1].page = 1
          /\ IsDataPage(log[k + 1])
    /\ Len(cache["load_schedule_4_from_cites"].value) >= 2

\* C10: a request that fails to connect or is never answered ends only
\* that appendix: the load neither raises nor stalls.
C10_ErrorsEndAppendix ==
    \A k \in 1..Len(log) :
        log[k].kind \in {"ConnectionError", "hang"} =>
            /\ crash # "requests.get"
            /\ pc \in {"paging", "idle"}
            /\ pc = "idle" => cache["load_all_data"].hit

====
